---- MODULE Spec2Model ----
(***************************************************************************)
(* The voting ledger of src/server/concepts/upvoting.ts (UpvotingConcept). *)
(*                                                                         *)
(* One UpvoteDoc per item is kept in a document collection.  Every method  *)
(* of the concept is an async function: each `await` of a store call is a  *)
(* point where other request handlers may run, so one method is a chain of *)
(* steps, one per store call.  The code between two awaits runs without    *)
(* interruption (single-threaded event loop) and belongs to the step of    *)
(* the store call that precedes it.                                        *)
(***************************************************************************)
EXTENDS Naturals, FiniteSets

\* ------------------------------------------------------------------ bounds
NumReviewers == 2   \* users in the reviewer pool of the registered item
NumProcs == 2       \* request handlers running at the same time

\* The users and items of the scenarios: reviewers (A, B, ...) and one user (Z)
\* who is in no reviewer pool; an item that has a document (I1) and one that
\* has none (I2).
Reviewers == 1..NumReviewers
Outsider == NumReviewers + 1
Users == Reviewers \cup {Outsider}
Registered == {"I1"}
Items == Registered \cup {"I2"}
Procs == 1..NumProcs

VARIABLES
    store,   \* the "votes" collection: item -> UpvoteDoc, or NoDoc
    calls,   \* per request handler: the method call it is running, or Idle
    obs,     \* observer of concurrent runs: per handler, its last returned call
    hist     \* observer of sequential runs: the last calls and their effect

vars == <<store, calls, obs, hist>>

\* ------------------------------------------------------------ the document
\* readOne's null
NoDoc == [null |-> TRUE]

\* an UpvoteDoc (the item is the key it is stored under)
UpvoteDoc(reviewers, upvotes, downvotes) ==
    [reviewers |-> reviewers, upvotes |-> upvotes, downvotes |-> downvotes]

\* DocCollection.readOne({ item: item }): the document stored for the item, or null
readOne(coll, item) == coll[item]

\* DocCollection.partialUpdateOne({ item: item }, update): sets the fields the
\* update names on the document the filter matches; matches nothing -> no change.
\* No version or condition is part of the filter the concept passes.
\* (variant: the filter is ignored and every document is updated)
partialUpdateOneNoFilter(coll, item, update) ==
    [i \in DOMAIN coll |->
        IF coll[i] = NoDoc THEN NoDoc
        ELSE [f \in DOMAIN coll[i] |->
                IF f \in DOMAIN update THEN update[f] ELSE coll[i][f]]]

partialUpdateOne(coll, item, update) ==
    IF coll[item] = NoDoc
    THEN coll
    ELSE [coll EXCEPT ![item] =
            [f \in DOMAIN coll[item] |->
                IF f \in DOMAIN update THEN update[f] ELSE coll[item][f]]]

\* ------------------------------------------------------------------ results
Pass == [kind |-> "pass", msg |-> ""]
\* (variant: the method throws after its write instead of returning)
OkThrown(msg) == [kind |-> "NotAllowedError", msg |-> msg]
Ok(msg) == [kind |-> "ok", msg |-> msg]
NotFoundError == [kind |-> "NotFoundError", msg |-> "does not exist"]
NotAllowedError(msg) == [kind |-> "NotAllowedError", msg |-> msg]
NoRes == [kind |-> "none", msg |-> ""]

\* ------------------------------------------------------------------- guards
\* Each guard is given the document its own readOne returned.
\* (variant: the reviewer pool is not consulted)
assertUserIsReviewerAnyone(doc, user) ==
    IF doc = NoDoc THEN NotFoundError ELSE Pass

assertUserIsReviewer(doc, user) ==
    IF doc = NoDoc THEN NotFoundError
    ELSE IF user \notin doc.reviewers THEN NotAllowedError("not in Reviewers")
    ELSE Pass

assertUserNotInUpvotes(doc, user) ==
    IF doc = NoDoc THEN NotFoundError
    ELSE IF user \in doc.downvotes THEN NotAllowedError("in upvotes")
    ELSE Pass

\* the same guard testing the set its name says
assertUserNotInDownvotesByName(doc, user) ==
    IF doc = NoDoc THEN NotFoundError
    ELSE IF user \in doc.downvotes THEN NotAllowedError("in downvotes")
    ELSE Pass

assertUserNotInDownvotes(doc, user) ==
    IF doc = NoDoc THEN NotFoundError
    ELSE IF user \in doc.upvotes THEN NotAllowedError("in downvotes")
    ELSE Pass

\* the same guard with its negation lost
assertUserInUpvotesNoNegation(doc, user) ==
    IF doc = NoDoc THEN NotFoundError
    ELSE IF user \in doc.downvotes THEN NotAllowedError("not in upvotes")
    ELSE Pass

assertUserInUpvotes(doc, user) ==
    IF doc = NoDoc THEN NotFoundError
    ELSE IF user \notin doc.downvotes THEN NotAllowedError("not in upvotes")
    ELSE Pass

assertUserInDownvotes(doc, user) ==
    IF doc = NoDoc THEN NotFoundError
    ELSE IF user \notin doc.upvotes THEN NotAllowedError("not in downvotes")
    ELSE Pass

\* --------------------------------------------------------------- the methods
Ops == {"upvoteItem", "downvoteItem", "removeUpvote", "removeDownvote"}
CastOps == {"upvoteItem", "downvoteItem"}

\* the methods that only read: getVotes, getUpvoteCount, getDownvoteCount
Queries == {"getVotes", "getUpvoteCount", "getDownvoteCount"}

\* what each of them returns for the document it read
getVotes(doc) ==
    IF doc = NoDoc THEN NotFoundError
    ELSE [kind |-> "ok", msg |-> "votes found", votes |-> doc]

\* the same method answering 0 for an item without a document
getUpvoteCountOrZero(doc) ==
    [kind |-> "ok",
     numberUpvotes |-> IF doc = NoDoc THEN 0 ELSE Cardinality(doc.upvotes)]

getUpvoteCount(doc) ==
    IF doc = NoDoc THEN NotFoundError
    ELSE [kind |-> "ok", numberUpvotes |-> Cardinality(doc.upvotes)]

getDownvoteCount(doc) ==
    IF doc = NoDoc THEN NotFoundError
    ELSE [kind |-> "ok", numberUpvotes |-> Cardinality(doc.downvotes)]

\* the vote routes: PUT /upvotes/upvote/:id and PUT /upvotes/downvote/:id
Routes == {"upvote", "downvote"}

\* the method a route calls after its getVotes returned the document votes
RouteMethod(route, votes, user) ==
    IF route = "upvote"
    THEN IF user \in votes.upvotes THEN "removeUpvote" ELSE "upvoteItem"
    ELSE IF user \in votes.downvotes THEN "removeDownvote" ELSE "downvoteItem"

\* the first await of each method
FirstPc(op) == IF op \in CastOps THEN "assertUserIsReviewer"
               ELSE IF op = "removeUpvote" THEN "assertUserInUpvotes"
               ELSE "assertUserInDownvotes"

\* the set each method computes from the document it read and then writes back
\* (variant: a fresh set holding the user alone)
upvoteItemSetFresh(doc, user) == {user}
upvoteItemSet(doc, user) == doc.upvotes \cup {user}
downvoteItemSet(doc, user) == doc.downvotes \cup {user}
removeUpvoteSet(doc, user) == doc.upvotes \ {user}
removeDownvoteSet(doc, user) == doc.downvotes \ {user}

NewSet(op, doc, user) ==
    CASE op = "upvoteItem" -> upvoteItemSet(doc, user)
      [] op = "downvoteItem" -> downvoteItemSet(doc, user)
      [] op = "removeUpvote" -> removeUpvoteSet(doc, user)
      [] op = "removeDownvote" -> removeDownvoteSet(doc, user)

\* the update each method passes to partialUpdateOne
\* (variant: the set is written to the reviewers field)
upvoteItemUpdateReviewers(set) == [reviewers |-> set]
upvoteItemUpdate(set) == [upvotes |-> set]
\* (variant: the set computed from downvotes is written to the downvotes field)
downvoteItemUpdateDownvotes(set) == [downvotes |-> set]
downvoteItemUpdate(set) == [upvotes |-> set]
removeUpvoteUpdate(set) == [upvotes |-> set]
removeDownvoteUpdate(set) == [upvotes |-> set]

Update(op, set) ==
    CASE op = "upvoteItem" -> upvoteItemUpdate(set)
      [] op = "downvoteItem" -> downvoteItemUpdate(set)
      [] op = "removeUpvote" -> removeUpvoteUpdate(set)
      [] op = "removeDownvote" -> removeDownvoteUpdate(set)

\* the confirmation each method returns
Msg(op) ==
    CASE op = "upvoteItem" -> "Upvoted"
      [] op = "downvoteItem" -> "Downvoted"
      [] op = "removeUpvote" -> "Upvote removed"
      [] op = "removeDownvote" -> "Downvote removed"

\* ---------------------------------------------------------------- the state
\* a handler that is running no call
\* via: the route that made the call, "none" for a call made on the concept itself
Idle == [pc |-> "idle", op |-> "none", item |-> "none", user |-> 0, snap |-> {},
         via |-> "none"]

InFlight(c) == c.pc # "idle"

\* The collection as the first request finds it.  The concept has no method that
\* creates or deletes a document: a document is there from the start, with its
\* reviewers and no votes, or it is never there.
InitStore ==
    [i \in Items |-> IF i \in Registered THEN UpvoteDoc(Reviewers, {}, {}) ELSE NoDoc]

\* what the step a call is at produces: Pass (the call goes on), a confirmation
\* (the call returns) or an error (the call throws)
Outcome(c, coll) ==
    LET doc == readOne(coll, c.item) IN
    CASE c.pc = "assertUserIsReviewer" -> assertUserIsReviewer(doc, c.user)
      [] c.pc = "assertUserNotInDownvotes" -> assertUserNotInDownvotes(doc, c.user)
      [] c.pc = "assertUserNotInUpvotes" -> assertUserNotInUpvotes(doc, c.user)
      [] c.pc = "assertUserInUpvotes" -> assertUserInUpvotes(doc, c.user)
      [] c.pc = "assertUserInDownvotes" -> assertUserInDownvotes(doc, c.user)
      [] c.pc = "readOne" -> IF doc = NoDoc THEN NotFoundError ELSE Pass
      [] c.pc = "partialUpdateOne" -> Ok(Msg(c.op))
      [] c.pc = "getVotes" -> getVotes(doc)
      [] c.pc = "getUpvoteCount" -> getUpvoteCount(doc)
      [] c.pc = "getDownvoteCount" -> getDownvoteCount(doc)
      [] c.pc \in Routes -> IF getVotes(doc).kind = "ok" THEN Pass ELSE getVotes(doc)
      [] OTHER -> NoRes

\* the step of p ends its call
Returns(p) == InFlight(calls[p]) /\ Outcome(calls[p], store) # Pass

\* ---------------------------------------------------------------- observers
\* The observers record what the calls did; no call reads them.  An observer
\* that is off stays off.
ObsOff == [off |-> TRUE]
HistOff == [off |-> TRUE]
NoCall == [op |-> "none", item |-> "none", user |-> 0, res |-> NoRes]

\* obs[p].done: the last call of p that returned, until p calls again;
\* obs[p].ovl: the handlers whose call ran at the same time as p's
ObsInit == [p \in Procs |-> [done |-> NoCall, ovl |-> {}]]

ObsAfterInvoke(p) ==
    [q \in Procs |->
        IF q = p
        THEN [done |-> NoCall, ovl |-> {r \in Procs \ {p} : InFlight(calls[r])}]
        ELSE IF InFlight(calls[q])
        THEN [obs[q] EXCEPT !.ovl = @ \cup {p}]
        ELSE obs[q]]

ObsAfterStep(p) ==
    IF Returns(p)
    THEN [obs EXCEPT ![p].done = [op |-> calls[p].op, item |-> calls[p].item,
                                  user |-> calls[p].user,
                                  res |-> Outcome(calls[p], store)]]
    ELSE obs

\* The vote a user holds on an item by the calls that returned a confirmation:
\* a cast that succeeded gives the vote, a retract that succeeded (either one)
\* takes it back.
LedgerAfter(held, op, res) ==
    IF res.kind # "ok" THEN held
    ELSE CASE op = "upvoteItem" -> "Upvoted"
           [] op = "downvoteItem" -> "Downvoted"
           [] op = "removeUpvote" -> "NoVote"
           [] op = "removeDownvote" -> "NoVote"

NoLast == [op |-> "none", item |-> "none", user |-> 0, res |-> NoRes,
           pre |-> NoDoc, held |-> "NoVote", via |-> "none"]

\* hist.pre, hist.held: the document of the running call's item and the vote its
\* user held when the call was made; hist.last: the call that returned last;
\* hist.ledger: the votes held by the calls that succeeded
HistInit ==
    [pre |-> NoDoc, held |-> "NoVote", last |-> NoLast,
     ledger |-> [i \in Items |-> [u \in Users |-> "NoVote"]]]

HistAfterInvoke(item, user) ==
    [hist EXCEPT !.pre = store[item],
                 !.held = IF user \in Users THEN hist.ledger[item][user]
                          ELSE "NoVote"]

HistAfterStep(p) ==
    LET c == calls[p]
        res == Outcome(c, store) IN
    IF Returns(p)
    THEN [hist EXCEPT
            !.last = [op |-> c.op, item |-> c.item, user |-> c.user, res |-> res,
                      pre |-> hist.pre, held |-> hist.held, via |-> c.via],
            !.ledger = IF c.op \in Ops
                       THEN [@ EXCEPT ![c.item][c.user] = LedgerAfter(@, c.op, res)]
                       ELSE @]
    ELSE hist

ObserveInvoke(p, item, user) ==
    /\ obs' = IF obs = ObsOff THEN obs ELSE ObsAfterInvoke(p)
    /\ hist' = IF hist = HistOff THEN hist ELSE HistAfterInvoke(item, user)

ObserveStep(p) ==
    /\ obs' = IF obs = ObsOff THEN obs ELSE ObsAfterStep(p)
    /\ hist' = IF hist = HistOff THEN hist ELSE HistAfterStep(p)

\* ------------------------------------------------------------------ actions
\* the call of p goes on to its next await, or ends
Guarded(p, pc) ==
    calls' = [calls EXCEPT ![p] =
                IF Outcome(calls[p], store) = Pass THEN [@ EXCEPT !.pc = pc] ELSE Idle]

\* A request handler calls a method of the concept.
Invoke(p, op, item, user) ==
    /\ ~InFlight(calls[p])
    /\ calls' = [calls EXCEPT ![p] = [pc |-> FirstPc(op), op |-> op, item |-> item,
                                      user |-> user, snap |-> {},
                                      via |-> "none"]]
    /\ UNCHANGED store
    /\ ObserveInvoke(p, item, user)

\* upvoteItem / downvoteItem: await this.assertUserIsReviewer(item, user)
AssertUserIsReviewer(p) ==
    /\ calls[p].pc = "assertUserIsReviewer"
    /\ Guarded(p, "assertUserNotInDownvotes")
    /\ UNCHANGED store
    /\ ObserveStep(p)

\* upvoteItem / downvoteItem: await this.assertUserNotInDownvotes(item, user)
AssertUserNotInDownvotes(p) ==
    /\ calls[p].pc = "assertUserNotInDownvotes"
    /\ Guarded(p, "assertUserNotInUpvotes")
    /\ UNCHANGED store
    /\ ObserveStep(p)

\* upvoteItem / downvoteItem: await this.assertUserNotInUpvotes(item, user)
AssertUserNotInUpvotes(p) ==
    /\ calls[p].pc = "assertUserNotInUpvotes"
    /\ Guarded(p, "readOne")
    /\ UNCHANGED store
    /\ ObserveStep(p)

\* removeUpvote: await this.assertUserInUpvotes(item, user)
AssertUserInUpvotes(p) ==
    /\ calls[p].pc = "assertUserInUpvotes"
    /\ Guarded(p, "readOne")
    /\ UNCHANGED store
    /\ ObserveStep(p)

\* removeDownvote: await this.assertUserInDownvotes(item, user)
AssertUserInDownvotes(p) ==
    /\ calls[p].pc = "assertUserInDownvotes"
    /\ Guarded(p, "readOne")
    /\ UNCHANGED store
    /\ ObserveStep(p)

\* all four: const upvotes = await this.upvotes.readOne({ item }), the null check,
\* and the new set, computed from the document just read
ReadOne(p) ==
    LET c == calls[p] IN
    /\ c.pc = "readOne"
    /\ calls' = [calls EXCEPT ![p] =
            IF Outcome(c, store) = Pass
            THEN [c EXCEPT !.pc = "partialUpdateOne",
                           !.snap = NewSet(c.op, readOne(store, c.item), c.user)]
            ELSE Idle]
    /\ UNCHANGED store
    /\ ObserveStep(p)

\* all four: await this.upvotes.partialUpdateOne({ item }, { upvotes: ... }); return
PartialUpdateOne(p) ==
    LET c == calls[p] IN
    /\ c.pc = "partialUpdateOne"
    /\ store' = partialUpdateOne(store, c.item, Update(c.op, c.snap))
    /\ calls' = [calls EXCEPT ![p] = Idle]
    /\ ObserveStep(p)

\* A request handler calls one of the methods that only read (they take no user).
InvokeQuery(p, op, item) ==
    /\ ~InFlight(calls[p])
    /\ calls' = [calls EXCEPT ![p] = [pc |-> op, op |-> op, item |-> item,
                                      user |-> 0, snap |-> {}, via |-> "none"]]
    /\ UNCHANGED store
    /\ ObserveInvoke(p, item, 0)

\* getVotes / getUpvoteCount / getDownvoteCount: await this.upvotes.readOne({ item }),
\* the null check, return
Query(p) ==
    /\ calls[p].pc \in Queries
    /\ calls' = [calls EXCEPT ![p] = Idle]
    /\ UNCHANGED store
    /\ ObserveStep(p)

\* A request handler runs a vote route for the user of its session.
InvokeRoute(p, route, item, user) ==
    /\ ~InFlight(calls[p])
    /\ calls' = [calls EXCEPT ![p] = [pc |-> route, op |-> "getVotes", item |-> item,
                                      user |-> user, snap |-> {}, via |-> route]]
    /\ UNCHANGED store
    /\ ObserveInvoke(p, item, user)

\* Routes.upvote / Routes.downvote: const votes = await Upvoting.getVotes(ItemOid)
\* (which throws for an item without a document), then the choice of the method
\* to call
RouteGetVotes(p) ==
    /\ calls[p].pc \in Routes
    /\ LET c == calls[p]
           votes == readOne(store, c.item)
           method == RouteMethod(c.via, votes, c.user) IN
       calls' = [calls EXCEPT ![p] =
                   IF Outcome(c, store) = Pass
                   THEN [c EXCEPT !.pc = FirstPc(method), !.op = method]
                   ELSE Idle]
    /\ UNCHANGED store
    /\ ObserveStep(p)

Step(p) ==
    \/ AssertUserIsReviewer(p)
    \/ AssertUserNotInDownvotes(p)
    \/ AssertUserNotInUpvotes(p)
    \/ AssertUserInUpvotes(p)
    \/ AssertUserInDownvotes(p)
    \/ ReadOne(p)
    \/ PartialUpdateOne(p)

\* Request handlers run concurrently: their awaits interleave in any order.
\* Two handlers make the calls that run at the same time; further handlers make
\* calls only in the runs with one call at a time.
TwoCallers == {p \in Procs : p <= 2}

Next ==
    \E p \in TwoCallers :
        \/ \E op \in Ops, item \in Items, user \in Users : Invoke(p, op, item, user)
        \/ Step(p)

Init ==
    /\ store = InitStore
    /\ calls = [p \in Procs |-> Idle]
    /\ obs = ObsOff
    /\ hist = HistOff

Spec == Init /\ [][Next]_vars

\* The same runs, with the observer of concurrent calls on.
ObsOnInit ==
    /\ store = InitStore
    /\ calls = [p \in Procs |-> Idle]
    /\ obs = ObsInit
    /\ hist = HistOff

ObsSpec == ObsOnInit /\ [][Next]_vars

\* One call at a time: a method is called only when no other call is running.
NoneInFlight == \A q \in Procs : ~InFlight(calls[q])

SeqInvoke(p, op, item, user) == NoneInFlight /\ Invoke(p, op, item, user)

SeqInvokeQuery(p, op, item) == NoneInFlight /\ InvokeQuery(p, op, item)

SeqInvokeRoute(p, route, item, user) == NoneInFlight /\ InvokeRoute(p, route, item, user)

SeqNext ==
    \E p \in Procs :
        \/ \E op \in Ops, item \in Items, user \in Users : SeqInvoke(p, op, item, user)
        \/ \E op \in Queries, item \in Items : SeqInvokeQuery(p, op, item)
        \/ Step(p)
        \/ Query(p)

SeqInit ==
    /\ store = InitStore
    /\ calls = [p \in Procs |-> Idle]
    /\ obs = ObsOff
    /\ hist = HistInit

SeqSpec == SeqInit /\ [][SeqNext]_vars

\* One request at a time, made to a vote route or to the concept itself.
RouteNext ==
    \E p \in Procs :
        \/ \E op \in Ops, item \in Items, user \in Users : SeqInvoke(p, op, item, user)
        \/ \E route \in Routes, item \in Items, user \in Users :
              SeqInvokeRoute(p, route, item, user)
        \/ Step(p)
        \/ RouteGetVotes(p)

RouteSpec == SeqInit /\ [][RouteNext]_vars

\* Any interleaving of the vote methods and the reading methods, called by two
\* handlers.
QueryNext ==
    \E p \in TwoCallers :
        \/ \E op \in Ops, item \in Items, user \in Users : Invoke(p, op, item, user)
        \/ \E op \in Queries, item \in Items : InvokeQuery(p, op, item)
        \/ Step(p)
        \/ Query(p)

QuerySpec == Init /\ [][QueryNext]_vars

\* The same interleavings on a collection that holds a document for every item.
BothRegistered == [i \in Items |-> UpvoteDoc(Reviewers, {}, {})]

IndepInit ==
    /\ store = BothRegistered
    /\ calls = [p \in Procs |-> Idle]
    /\ obs = ObsOff
    /\ hist = HistOff

IndepSpec == IndepInit /\ [][QueryNext]_vars

\* =================================================================== claims
Docs == {i \in Items : store[i] # NoDoc}

\* two handlers are past every guard of a cast for the same (item, user), one
\* of an upvote and one of a downvote, and neither has written yet
BothCastsPoised(i, u) ==
    \E p, q \in Procs :
        /\ calls[p].pc = "partialUpdateOne" /\ calls[p].op = "upvoteItem"
        /\ calls[q].pc = "partialUpdateOne" /\ calls[q].op = "downvoteItem"
        /\ calls[p].item = i /\ calls[q].item = i
        /\ calls[p].user = u /\ calls[q].user = u

\* C1: in every state reachable by any interleaving of the four vote methods
\* from documents without votes, no user is in both the upvotes and the
\* downvotes of an item.
C1_NoUserInBothSets ==
    \A i \in Docs : store[i].upvotes \cap store[i].downvotes = {}

\* C1 witness: an upvote and a downvote of the same user on the same item have
\* both passed their guards and are about to write.
C1_Witness == \E i \in Docs, u \in Users : BothCastsPoised(i, u)

\* C2: in every state reachable by any interleaving of the four vote methods,
\* every member of upvotes and of downvotes is one of the item's reviewers.
C2_VotersAreReviewers ==
    \A i \in Docs : /\ store[i].upvotes \subseteq store[i].reviewers
                     /\ store[i].downvotes \subseteq store[i].reviewers

\* C2 witness: a user outside the reviewer pool is casting a vote on an item
\* that already holds a vote.
C2_Witness ==
    \E i \in Docs, p \in Procs :
        /\ store[i].upvotes # {}
        /\ calls[p].pc = "assertUserIsReviewer"
        /\ calls[p].item = i
        /\ calls[p].user \notin store[i].reviewers

\* ---- concurrent calls (ObsSpec)
Succeeded(d, op) == d.op = op /\ d.res.kind = "ok"

\* the cast guards' "already voted" errors
AlreadyVoted(res) ==
    res.kind = "NotAllowedError" /\ res.msg \in {"in upvotes", "in downvotes"}

\* the last calls of p and q ran at the same time and both have returned
RanConcurrently(p, q) ==
    /\ p # q
    /\ obs[p].done.op # "none" /\ obs[q].done.op # "none"
    /\ q \in obs[p].ovl /\ p \in obs[q].ovl

\* the guards a method evaluates, on one document
GuardsPass(op, doc, user) ==
    IF op \in CastOps
    THEN /\ assertUserIsReviewer(doc, user) = Pass
         /\ assertUserNotInDownvotes(doc, user) = Pass
         /\ assertUserNotInUpvotes(doc, user) = Pass
    ELSE IF op = "removeUpvote"
    THEN assertUserInUpvotes(doc, user) = Pass
    ELSE assertUserInDownvotes(doc, user) = Pass

\* C3: of two upvoteItem calls for the same (item, user) that run at the same
\* time, at most one returns its confirmation.
C3_OneConcurrentUpvoteSucceeds ==
    \A p, q \in Procs :
        ( /\ RanConcurrently(p, q)
          /\ obs[p].done.op = "upvoteItem" /\ obs[q].done.op = "upvoteItem"
          /\ obs[p].done.item = obs[q].done.item
          /\ obs[p].done.user = obs[q].done.user
          /\ obs[p].done.res.kind = "ok" )
        => AlreadyVoted(obs[q].done.res)

\* C4: when upvoteItem(item, a) and upvoteItem(item, b), a # b, run at the same
\* time and both return their confirmation, then once both have returned (and
\* nothing else is running) a and b are both in upvotes.
C4_NoUpvoteLost ==
    \A p, q \in Procs :
        ( /\ RanConcurrently(p, q)
          /\ Succeeded(obs[p].done, "upvoteItem")
          /\ Succeeded(obs[q].done, "upvoteItem")
          /\ obs[p].done.item = obs[q].done.item
          /\ obs[p].done.user # obs[q].done.user
          /\ \A r \in Procs : ~InFlight(calls[r]) )
        => {obs[p].done.user, obs[q].done.user}
               \subseteq store[obs[p].done.item].upvotes

\* C5: a call that is about to write finds the document in a state that passes
\* the guards it evaluated; and an upvoteItem and a downvoteItem of the same
\* (item, user) that run at the same time do not both return a confirmation.
C5_OneSnapshot ==
    /\ \A p \in Procs :
          calls[p].pc = "partialUpdateOne"
          => GuardsPass(calls[p].op, store[calls[p].item], calls[p].user)
    /\ \A p, q \in Procs :
          ~ ( /\ RanConcurrently(p, q)
              /\ Succeeded(obs[p].done, "upvoteItem")
              /\ Succeeded(obs[q].done, "downvoteItem")
              /\ obs[p].done.item = obs[q].done.item
              /\ obs[p].done.user = obs[q].done.user )

\* ---- one call at a time (SeqSpec)
\* In these runs the store changes only in the step in which a call returns, so
\* in every state store is the store the call hist.last left behind.
Last == hist.last

HoldsNoVote(doc, user) ==
    doc # NoDoc /\ user \notin doc.upvotes /\ user \notin doc.downvotes

\* C6: a downvoteItem(item, u) that returns its confirmation has added u to the
\* item's downvotes and left upvotes and reviewers as they were, so the number
\* of downvotes has grown by exactly 1.
C6_DownvoteAddsToDownvotes ==
    Succeeded(Last, "downvoteItem")
    => /\ store[Last.item].downvotes = Last.pre.downvotes \cup {Last.user}
       /\ store[Last.item].upvotes = Last.pre.upvotes
       /\ store[Last.item].reviewers = Last.pre.reviewers
       /\ Cardinality(store[Last.item].downvotes)
            = Cardinality(Last.pre.downvotes) + 1

\* C7: upvoteItem(item, u), called on a document of which u is a reviewer and
\* in neither upvotes nor downvotes, returns its confirmation, adds exactly u
\* to upvotes and leaves downvotes and reviewers as they were: the number of
\* upvotes grows by exactly 1 and the number of downvotes stays.
C7_UpvoteAddsToUpvotes ==
    ( /\ Last.op = "upvoteItem"
      /\ HoldsNoVote(Last.pre, Last.user)
      /\ Last.user \in Last.pre.reviewers )
    => /\ Last.res = Ok("Upvoted")
       /\ store[Last.item] = [Last.pre EXCEPT !.upvotes = @ \cup {Last.user}]
       /\ Cardinality(store[Last.item].upvotes) = Cardinality(Last.pre.upvotes) + 1
       /\ Cardinality(store[Last.item].downvotes) = Cardinality(Last.pre.downvotes)

\* C7 witness: an upvote has succeeded on an item another user had upvoted.
C7_Witness ==
    /\ Succeeded(Last, "upvoteItem")
    /\ Last.pre.upvotes # {}
    /\ Last.user \notin Last.pre.upvotes

\* the step in which the running call of p returns or throws
ReturnStep(p) == InFlight(calls[p]) /\ calls'[p] = Idle

\* C8: a retract that is called right after the cast of the same kind by the
\* same user on the same item succeeded, the user having held no vote before
\* the cast, returns its confirmation and leaves the document as it was before
\* the cast.
C8_CastThenRetractRestores ==
    [][ \A p \in Procs :
          ( /\ ReturnStep(p)
            /\ \/ calls[p].op = "removeUpvote" /\ Succeeded(Last, "upvoteItem")
               \/ calls[p].op = "removeDownvote" /\ Succeeded(Last, "downvoteItem")
            /\ calls[p].item = Last.item
            /\ calls[p].user = Last.user
            /\ HoldsNoVote(Last.pre, Last.user) )
          => /\ Outcome(calls[p], store).kind = "ok"
             /\ store'[Last.item] = Last.pre ]_vars

\* C9: a cast by a user who holds a vote on the item (a cast of theirs
\* succeeded and they have not retracted it since) fails with the "already
\* voted" error.
C9_SecondCastRejected ==
    (Last.op \in CastOps /\ Last.held # "NoVote") => AlreadyVoted(Last.res)

\* ---- the vote state of an (item, user) pair
VoteState(doc, user) ==
    IF doc = NoDoc THEN "NoVote"
    ELSE IF user \in doc.upvotes THEN "Upvoted"
    ELSE IF user \in doc.downvotes THEN "Downvoted"
    ELSE "NoVote"

Transitions ==
    { <<"upvoteItem", "NoVote", "Upvoted">>,
      <<"downvoteItem", "NoVote", "Downvoted">>,
      <<"removeUpvote", "Upvoted", "NoVote">>,
      <<"removeDownvote", "Downvoted", "NoVote">> }

\* C10: the vote state of an (item, user) pair changes only in the write of a
\* call made for that item and user, and only by the transition of that
\* call's method.
C10_OnlyTheFourTransitions ==
    [][ \A i \in Items, u \in Users :
          VoteState(store[i], u) # VoteState(store'[i], u)
          => \E p \in Procs :
               /\ ReturnStep(p)
               /\ calls[p].item = i
               /\ calls[p].user = u
               /\ <<calls[p].op, VoteState(store[i], u), VoteState(store'[i], u)>>
                    \in Transitions ]_vars

\* C11: removeDownvote(item, u) returns its confirmation only when u is in the
\* item's downvotes; when u is not, it fails with the "not in downvotes" error
\* and leaves the document as it was; and when it succeeds it only removes u
\* from downvotes.
C11_RetractDownvoteNeedsDownvote ==
    (Last.op = "removeDownvote" /\ Last.pre # NoDoc)
    => /\ Last.user \notin Last.pre.downvotes
          => /\ Last.res = NotAllowedError("not in downvotes")
             /\ store[Last.item] = Last.pre
       /\ Last.res.kind = "ok"
          => /\ Last.user \in Last.pre.downvotes
             /\ store[Last.item] = [Last.pre EXCEPT !.downvotes = @ \ {Last.user}]

\* C12: removeUpvote(item, u), called on a document whose upvotes do not hold u,
\* fails with the "not in upvotes" error and leaves the document as it was.
C12_RetractUpvoteRejected ==
    ( /\ Last.op = "removeUpvote"
      /\ Last.pre # NoDoc
      /\ Last.user \notin Last.pre.upvotes )
    => /\ Last.res = NotAllowedError("not in upvotes")
       /\ store[Last.item] = Last.pre

\* C12 witness: a reviewer who holds no upvote has called removeUpvote on an
\* item that holds another user's vote, and the call has thrown.
C12_Witness ==
    /\ Last.op = "removeUpvote"
    /\ Last.pre # NoDoc
    /\ Last.user \in Last.pre.reviewers
    /\ Last.user \notin Last.pre.upvotes
    /\ Last.pre.upvotes # {}
    /\ Last.res.kind = "NotAllowedError"

\* C13: upvoteItem and downvoteItem by a user who is not a reviewer of the item
\* fail with the "not in Reviewers" error and leave the document as it was.
C13_NonReviewerRejected ==
    ( /\ Last.op \in CastOps
      /\ Last.pre # NoDoc
      /\ Last.user \notin Last.pre.reviewers )
    => /\ Last.res = NotAllowedError("not in Reviewers")
       /\ store[Last.item] = Last.pre

\* C13 witness: a downvoteItem by a user outside the reviewers has thrown on an
\* item that holds a vote.
C13_Witness ==
    /\ Last.op = "downvoteItem"
    /\ Last.pre # NoDoc
    /\ Last.user \notin Last.pre.reviewers
    /\ Last.pre.upvotes # {}
    /\ Last.res.kind = "NotAllowedError"

\* the causes for which upvoteItem is to fail, in the order they are tested
FailureCause(doc, user) ==
    IF doc = NoDoc THEN "no document"
    ELSE IF user \notin doc.reviewers THEN "not a reviewer"
    ELSE IF ~HoldsNoVote(doc, user) THEN "already voted"
    ELSE "none"

\* the error upvoteItem throws for a user who is not a reviewer
NotReviewer == NotAllowedError("not in Reviewers")

C15_NoDocumentNoEffect ==
    /\ (Last.op \in Ops \cup Queries /\ Last.pre = NoDoc)
       => /\ Last.res = NotFoundError
          /\ store[Last.item] = NoDoc
    /\ \A i \in Items \ Registered : store[i] = NoDoc

\* C15 witness: getUpvoteCount has thrown for an item without a document while
\* another item holds a vote.
C15_Witness ==
    /\ Last.op = "getUpvoteCount"
    /\ Last.pre = NoDoc
    /\ Last.res.kind = "NotFoundError"
    /\ \E i \in Docs : store[i].upvotes # {}

\* the users whose latest successful call on the item was the cast named by vote
LatestCastWas(item, vote) == {u \in Users : hist.ledger[item][u] = vote}

\* C16: on an item with a document, getUpvoteCount returns the size of upvotes
\* and getDownvoteCount the size of downvotes, which is the number of users
\* whose latest successful call on the item was an upvoteItem (a downvoteItem);
\* neither call changes the document.
C16_CountsAreVoteCounts ==
    /\ (Last.op = "getUpvoteCount" /\ Last.pre # NoDoc)
       => /\ Last.res.kind = "ok"
          /\ Last.res.numberUpvotes = Cardinality(Last.pre.upvotes)
          /\ Last.res.numberUpvotes = Cardinality(LatestCastWas(Last.item, "Upvoted"))
          /\ store[Last.item] = Last.pre
    /\ (Last.op = "getDownvoteCount" /\ Last.pre # NoDoc)
       => /\ Last.res.kind = "ok"
          /\ Last.res.numberUpvotes = Cardinality(Last.pre.downvotes)
          /\ Last.res.numberUpvotes = Cardinality(LatestCastWas(Last.item, "Downvoted"))
          /\ store[Last.item] = Last.pre

\* ---- any interleaving of votes and reads (QuerySpec)
\* C17: whatever the vote methods and the reading methods do, in whatever
\* interleaving, the reviewers of every document stay the set the document
\* started with.
C17_ReviewersNeverChange ==
    \A i \in Items :
        /\ store[i] = NoDoc <=> InitStore[i] = NoDoc
        /\ store[i] # NoDoc => store[i].reviewers = InitStore[i].reviewers

\* C17 witness: on an item that holds a vote, a removeDownvote is about to
\* write while another handler is reading.
C17_Witness ==
    \E p, q \in TwoCallers :
        /\ calls[p].op = "removeDownvote" /\ calls[p].pc = "partialUpdateOne"
        /\ calls[q].op \in Queries /\ calls[q].item = calls[p].item
        /\ store[calls[p].item].upvotes # {}

\* ---- two items with documents (IndepSpec)
\* the documents another item may hold: none, one without votes, one with the
\* vote of every reviewer
AnyDoc == {NoDoc, UpvoteDoc(Reviewers, {}, {}), UpvoteDoc(Reviewers, Reviewers, {})}

\* the store with the documents of all items but item replaced by doc
OthersReplaced(item, doc) == [j \in Items |-> IF j = item THEN store[j] ELSE doc]

\* C18: a step of a call made for an item leaves the document of every other
\* item as it was, and what the step produces (going on, a confirmation or an
\* error, and the document it leaves for its own item) is the same whatever
\* the other items hold.
C18_ItemsIndependent ==
    [][ \A p \in Procs :
          (InFlight(calls[p]) /\ calls'[p] # calls[p])
          => /\ \A j \in Items \ {calls[p].item} : store'[j] = store[j]
             /\ \A d \in AnyDoc :
                  /\ Outcome(calls[p], OthersReplaced(calls[p].item, d))
                       = Outcome(calls[p], store)
                  /\ calls[p].pc = "partialUpdateOne"
                     => store'[calls[p].item]
                          = partialUpdateOne(OthersReplaced(calls[p].item, d),
                                             calls[p].item,
                                             Update(calls[p].op, calls[p].snap))
                               [calls[p].item] ]_vars

\* C18 witness: a call is about to write to one item while another call is
\* running on a different item that holds a vote.
C18_Witness ==
    \E p, q \in TwoCallers :
        /\ calls[p].pc = "partialUpdateOne"
        /\ InFlight(calls[q])
        /\ calls[q].item # calls[p].item
        /\ store[calls[q].item].upvotes # {}
        /\ store[calls[p].item].upvotes # store[calls[q].item].upvotes

\* ---- creating and deleting documents
\* The class has the seven methods of Ops and Queries and no other.
\* A call of one of them, run alone on the collection coll: whether it returns
\* (instead of throwing) and the collection it leaves.
Completes(op, coll, item, user) ==
    CASE op \in Ops -> GuardsPass(op, readOne(coll, item), user)
      [] op = "getVotes" -> getVotes(readOne(coll, item)).kind = "ok"
      [] op = "getUpvoteCount" -> getUpvoteCount(readOne(coll, item)).kind = "ok"
      [] op = "getDownvoteCount" -> getDownvoteCount(readOne(coll, item)).kind = "ok"

EffectAlone(op, coll, item, user) ==
    IF op \in Ops /\ Completes(op, coll, item, user)
    THEN partialUpdateOne(coll, item,
                          Update(op, NewSet(op, readOne(coll, item), user)))
    ELSE coll

\* C19: the ledger has an entry point that, called for an item without a
\* document, returns and leaves a document for the item with reviewers, no
\* upvotes and no downvotes (and that fails on an item that has a document,
\* leaving it as it was).
C19_InitializeCreatesRecord ==
    \A i \in Items :
        store[i] = NoDoc
        => \E op \in Ops \cup Queries, u \in Users :
              /\ Completes(op, store, i, u)
              /\ EffectAlone(op, store, i, u)[i] # NoDoc
              /\ EffectAlone(op, store, i, u)[i].upvotes = {}
              /\ EffectAlone(op, store, i, u)[i].downvotes = {}

\* C20: the ledger has an entry point that removes the document of an item,
\* and that, called for an item without a document, returns without an error
\* and changes nothing (so that calling it again is the same as calling it
\* once).
C20_DeleteIsIdempotent ==
    \E op \in Ops \cup Queries, u \in Users :
        \A i \in Items :
            /\ Completes(op, store, i, u)
            /\ EffectAlone(op, store, i, u)[i] = NoDoc
            /\ EffectAlone(op, EffectAlone(op, store, i, u), i, u)
                 = EffectAlone(op, store, i, u)

\* what a call that has returned left in store is what EffectAlone computes
EffectAloneIsTheCall ==
    (Last.op \in Ops \cup Queries)
    => /\ Completes(Last.op, [store EXCEPT ![Last.item] = Last.pre],
                    Last.item, Last.user) <=> Last.res.kind = "ok"
       /\ store = EffectAlone(Last.op, [store EXCEPT ![Last.item] = Last.pre],
                              Last.item, Last.user)

\* ---- the vote routes, one request at a time (RouteSpec)
\* C21: a request to a vote route by a reviewer who holds no vote on the item
\* succeeds, and the next request, made to the same route by the same user for
\* the same item, succeeds too and leaves the document as it was before the
\* first.
C21_RoutesToggle ==
    [][ \A p \in Procs :
          (ReturnStep(p) /\ calls[p].via \in Routes)
          => /\ ( /\ HoldsNoVote(hist.pre, calls[p].user)
                  /\ calls[p].user \in hist.pre.reviewers )
                => Outcome(calls[p], store).kind = "ok"
             /\ ( /\ Last.via = calls[p].via
                  /\ Last.item = calls[p].item
                  /\ Last.user = calls[p].user
                  /\ Last.res.kind = "ok"
                  /\ HoldsNoVote(Last.pre, Last.user) )
                => /\ Outcome(calls[p], store).kind = "ok"
                   /\ store'[Last.item] = Last.pre ]_vars

\* ---- what the vote methods write (QuerySpec)
\* C22: no interleaving of the methods changes the downvotes of a document
\* (every write names the upvotes field), so getDownvoteCount returns for an
\* item the value it returned at the start, in every state.
C22_DownvotesNeverWritten ==
    /\ \A i \in Docs : store[i].downvotes = InitStore[i].downvotes
    /\ \A i \in Items : getDownvoteCount(store[i]) = getDownvoteCount(InitStore[i])
    /\ \A p \in Procs :
          calls[p].pc = "getDownvoteCount"
          => Outcome(calls[p], store) = getDownvoteCount(InitStore[calls[p].item])

\* C22 witness: getDownvoteCount is running for an item that holds a vote while
\* a downvoteItem for the same item is about to write.
C22_Witness ==
    \E p, q \in TwoCallers :
        /\ calls[p].pc = "getDownvoteCount"
        /\ calls[q].op = "downvoteItem" /\ calls[q].pc = "partialUpdateOne"
        /\ calls[q].item = calls[p].item
        /\ store[calls[p].item].upvotes # {}

\* the errors a vote method ends in
Failed(res) == res.kind \in {NotFoundError.kind, NotAllowedError("").kind}

\* C23: the store changes only in the last step of a call, after every guard
\* and the null check of the call have passed, and that step returns the
\* confirmation: a call writes at most once, and a call that ends in
\* NotFoundError or NotAllowedError has written nothing.
C23_FailedCallsWriteNothing ==
    [][ /\ store' # store
           => \E p \in Procs :
                /\ ReturnStep(p)
                /\ calls[p].pc = "partialUpdateOne"
                /\ ~Failed(Outcome(calls[p], store))
        /\ \A p \in Procs :
             (ReturnStep(p) /\ Failed(Outcome(calls[p], store)))
             => store' = store ]_vars

\* C23 witness: a call has passed its first guard and will fail at the next,
\* while another call is about to write.
C23_Witness ==
    \E p, q \in TwoCallers :
        /\ calls[p].pc = "assertUserNotInDownvotes"
        /\ Failed(Outcome(calls[p], store))
        /\ calls[q].pc = "partialUpdateOne"

====
